---- MODULE Spec2Model ----
(***************************************************************************)
(* A model of jquery-deferred.js (src/unnamed/part_000): CallbackList,     *)
(* FSM, Deferred / Promise and the aggregator `when`; of src/deferred.js   *)
(* the call Deferred.when() without arguments.                             *)
(*                                                                         *)
(* The library is synchronous: one API call runs to completion, invoking   *)
(* every listener it reaches on the same call stack.  Each action below is *)
(* therefore one whole API call; the operators it uses thread a record     *)
(*   st = [heap, cl, log, nextId, ret]                                     *)
(* through the nested calls exactly as the JavaScript mutates its objects. *)
(***************************************************************************)
EXTENDS Integers, Sequences, FiniteSets, TLC

VARIABLES heap,     \* the Deferred objects: FSM state and the three CallbackLists
          cl,       \* closure variables of each `when` call (remaining, results)
          log,      \* every invocation of a user listener, in order
          nextId,   \* the module-level `id` counter (line 199)
          returned, \* the value the last API call returned
          own,      \* the Deferreds the caller holds: those it constructed and
                    \* those a call handed to it
          agg,      \* the Deferred `ret` created by the `when` call (0 if none)
          whenArgs, \* the argument list of the `when` call made (<<>> if none)
          whenRet,  \* the value the `when` call returned (NotCalled if none)
          chains,   \* history: per Deferred a `then` call created, the Deferred
                    \* `then` was called on and the filters (src 0 if none)
          regs,     \* history: the user listeners registered so far
          settled,  \* history: per Deferred, the producer call that settled it
          late,     \* history: per Deferred, the states of the producer calls
                    \* made after it settled that differ from the settling call
          notified, \* history: per Deferred, the last notify made while pending
          nFires,   \* number of producer calls made
          nConsumes \* number of consumer calls made

vars == <<heap, cl, log, nextId, returned, own, agg, whenArgs, whenRet, chains, regs,
          settled, late, notified, nFires, nConsumes>>

---------------------------------------------------------------------------
(* Bounds of the model.                                                    *)

\* Deferred objects that can exist (inputs, the aggregate, then-results).
MaxDeferreds == 4
\* Producer calls (resolve/reject/notify and their With forms) on the Deferred.
MaxFires == 2
\* Listener registrations (done, fail, progress, always) on the Deferred.
MaxConsumes == 3
\* Producer calls on the inputs of `when`.
MaxInputFires == 2
\* Registering consumer calls (done, fail, progress, always, then, pipe) on
\* the promise `when` returned.
MaxAggCalls == 2
\* Arguments of a `when` call over immediate values.
MaxInputs == 2
\* Producer calls on the Deferred whose progress channel is observed.
MaxProgressFires == 2
\* Listener registrations on that Deferred.
MaxProgressListens == 2
\* Producer calls on the Deferred whose Promise view is used.
MaxPromiseFires == 1
\* Registering calls (done, fail, progress, always, then, pipe) on Promise
\* views.
MaxPromiseCalls == 2
\* Producer calls of the caller on the Deferred with re-entrant listeners.
MaxReenterFires == 1
\* Listener registrations on that Deferred.
MaxReenterListens == 3
\* Calls of state(newState, ...) on the FSM of the Deferred.
MaxTransitions == 2
\* Listener registrations on the FSM of the Deferred.
MaxFsmListens == 2
\* Producer calls on the Deferred `then` is called on.
MaxThenFires == 2
\* `then` calls.
MaxThens == 1
\* Listener registrations on the Deferred `then` is called on and on the
\* promises `then` returned.
MaxThenListens == 2
\* Producer calls on the Deferred `then` is called on and on the Deferred a
\* filter returns.
MaxAdoptFires == 3
\* Producer calls in one behaviour of SpecSettle.
MaxSettleFires == 3

---------------------------------------------------------------------------
(* JavaScript values.  Every value is a record of one shape so that any    *)
(* two values can be compared: k is the kind, n the number or object id,   *)
(* elems the elements of an array (scalars [k, n]).                        *)

Scalar(k, n) == [k |-> k, n |-> n]
Val(k, n) == [k |-> k, n |-> n, elems |-> <<>>]
Undefined == Val("undefined", 0)
Num(n) == Val("num", n)
DeferredRef(d) == Val("deferred", d)
PromiseRef(d) == Val("promise", d)
CtxObj == Val("object", 0)
ToScalar(v) == Scalar(v.k, v.n)
Arr(s) == [k |-> "array", n |-> 0, elems |-> s]

\* arguments[i] of a call with argument list args (1-based here): undefined
\* when the caller passed fewer arguments.
Arg(args, i) == IF i <= Len(args) THEN args[i] ELSE Undefined

\* arg instanceof Promise || arg instanceof Deferred
IsPromiseCapable(v) == v.k \in {"deferred", "promise"}

---------------------------------------------------------------------------
(* The state table (lines 152-178) and the option merging of FSM and       *)
(* CallbackList.                                                           *)

StateNames == {"resolved", "rejected", "pending"}

STATES ==
  [resolved |-> [fire |-> "resolve", listen |-> "done", thenIndex |-> 0,
                 opts |-> [memory |-> TRUE, once |-> TRUE, finalState |-> TRUE]],
   rejected |-> [fire |-> "reject", listen |-> "fail", thenIndex |-> 1,
                 opts |-> [memory |-> TRUE, once |-> TRUE, finalState |-> TRUE]],
   pending  |-> [fire |-> "notify", listen |-> "progress", thenIndex |-> 2,
                 opts |-> [memory |-> TRUE, once |-> FALSE]]]

PROMISE_FUNCTIONS == {"state", "then", "done", "fail", "always", "pipe", "progress"}

\* The producer operations of a Deferred (lines 240-247).
ProducerFunctions ==
  {STATES[s].fire : s \in StateNames} \cup {"resolveWith", "rejectWith", "notifyWith"}

\* The operations a Promise object carries (lines 187-196).
PromiseOperations == PROMISE_FUNCTIONS \cup {"promise"}

\* toolous.merge(a, b): b's own keys override a's.
Merge(a, b) ==
  [key \in DOMAIN a \cup DOMAIN b |-> IF key \in DOMAIN b THEN b[key] ELSE a[key]]

\* FSM: this._stateOptDefs of `new FSM({state: "pending", statesOptions: STATES})`.
StateOptDefs == [once |-> TRUE, memory |-> TRUE, finalState |-> FALSE]

FSM_getStateOptions(state) == Merge(StateOptDefs, STATES[state].opts)

\* CallbackList constructor: options merged over {once: false, memory: true}.
CallbackListOptions(state) ==
  Merge([once |-> FALSE, memory |-> TRUE], FSM_getStateOptions(state))

---------------------------------------------------------------------------
(* Objects.                                                                *)

\* this._listeners[state] before a CallbackList was created for the state.
NoList == [exists |-> FALSE, callbacks |-> <<>>, fired |-> FALSE,
           firedContext |-> Undefined, firedArgs |-> <<>>]

\* new CallbackList(options): no callbacks, no firedArgs.
NewCallbackList == [NoList EXCEPT !.exists = TRUE]

\* A slot of the heap no `new Deferred()` has used yet.
Unallocated == [alloc |-> FALSE, state |-> "pending",
                listeners |-> [s \in StateNames |-> NoList]]

\* new Deferred(): an FSM in state "pending" with no CallbackLists.
NewDeferredObj == [Unallocated EXCEPT !.alloc = TRUE]

\* The closure of a `when` call that was never made.
NoClosure == [remaining |-> 0, results |-> <<>>]

(* Callbacks.  kind is                                                     *)
(*   "user"         a listener of the caller, which only gets logged;      *)
(*   "whenProgress" the counter of `when` (lines 310-314);                 *)
(*   "whenDone"     function(value) { ret.notify(i, value) } (317-319);    *)
(*   "whenFail"     function(args) { ret.reject(args) } (320-322);         *)
(*   "then"         the listener `then` registers per state (268-281);     *)
(*   "fire"         retDeferred[fire], bound to retDeferred (line 273);    *)
(*   "reenter"      a listener of the caller that is logged and then calls *)
(*                  resolve, reject or notify on a Deferred.               *)
Callback(kind, id, d, i, ch, filter, me) ==
  [kind |-> kind, id |-> id, d |-> d, i |-> i, ch |-> ch, filter |-> filter, me |-> me]

UserCb(id) == Callback("user", id, 0, 0, "", "none", 0)
WhenProgressCb(ret) == Callback("whenProgress", 0, ret, 0, "", "none", 0)
WhenDoneCb(ret, i) == Callback("whenDone", 0, ret, i, "", "none", 0)
WhenFailCb(ret) == Callback("whenFail", 0, ret, 0, "", "none", 0)
ThenCb(me, ret, ch, filter) == Callback("then", 0, ret, 0, ch, filter, me)
FireCb(ret, ch) == Callback("fire", 0, ret, 0, ch, "none", 0)
ReenterCb(id, d, ch) == Callback("reenter", id, d, 0, ch, "none", 0)

\* The arguments of the producer call a "reenter" listener makes.
ReenterArgs == <<Num(5)>>

---------------------------------------------------------------------------
(* The code.  st = [heap, cl, log, nextId, ret]; ret is the value the last *)
(* API function returned.                                                  *)

RECURSIVE CallbackList_fireWith(_, _, _, _, _)
RECURSIVE CallbackList_add(_, _, _, _)
RECURSIVE FSM_state(_, _, _, _, _)
RECURSIVE Deferred_listen(_, _, _, _)
RECURSIVE Deferred_fireWith(_, _, _, _, _)
RECURSIVE Deferred_fire(_, _, _, _)
RECURSIVE checkComplete(_, _)
RECURSIVE Call(_, _, _, _, _, _)
RECURSIVE ForEachCallback(_, _, _, _, _, _, _)

\* Mutant of Promise: the return value of the Deferred's method is handed
\* out as it is.
Promise_ReturnsRet(st, d) == st

\* The methods of a Promise view (lines 185-197): forward to the Deferred
\* and return the promise in place of the Deferred.
Promise(st, d) ==
  IF st.ret = DeferredRef(d) THEN [st EXCEPT !.ret = PromiseRef(d)] ELSE st

\* A filter handed to `then`: "none" is a missing or non-function argument,
\* "value" a function that returns the plain value FilterValue, "deferred"
\* a function that returns the Deferred FilterDeferred of the caller and
\* "promise" a function that returns the Promise view of that Deferred.
FilterValue == Num(9)
FilterDeferred == DeferredRef(2)
FilterResult(filter, context, args) ==
  CASE filter = "value" -> FilterValue
    [] filter = "deferred" -> FilterDeferred
    [] filter = "promise" -> PromiseRef(FilterDeferred.n)

\* Mutant of ThenListener: every outcome of the source is passed on as a
\* resolve.
ThenListener_AlwaysResolves(st, cb, context, args) ==
  LET filterResult == IF cb.filter # "none"
                      THEN FilterResult(cb.filter, context, args)
                      ELSE Val("false", 0)
  IN Deferred_fireWith(st, cb.d, "resolved", PromiseRef(cb.me),
                       IF cb.filter # "none" THEN <<filterResult>> ELSE args)

\* Mutant of ThenListener: a promise-capable filter result is passed along
\* as a value.
ThenListener_PassesPromiseAlong(st, cb, context, args) ==
  LET filterResult == IF cb.filter # "none"
                      THEN FilterResult(cb.filter, context, args)
                      ELSE Val("false", 0)
  IN Deferred_fireWith(st, cb.d, cb.ch, PromiseRef(cb.me),
                       IF cb.filter # "none" THEN <<filterResult>> ELSE args)

\* The listener `then` registers for a state (lines 268-281): cb.me is the
\* Deferred `then` was called on, cb.d is retDeferred, cb.ch the state and
\* cb.filter the filter of the state.
ThenListener(st, cb, context, args) ==
  LET filterResult == IF cb.filter # "none"
                      THEN FilterResult(cb.filter, context, args)
                      ELSE Val("false", 0)
  IN IF IsPromiseCapable(filterResult)
     THEN \* filterPromise[listen](retDeferred[fire]) for resolved, rejected
          \* and pending, in the key order of STATES
          LET filterPromise == PromiseRef(filterResult.n)
              q == filterPromise.n
              st1 == Promise(Deferred_listen(st, q, "resolved",
                                             FireCb(cb.d, "resolved")), q)
              st2 == Promise(Deferred_listen(st1, q, "rejected",
                                             FireCb(cb.d, "rejected")), q)
          IN Promise(Deferred_listen(st2, q, "pending", FireCb(cb.d, "pending")), q)
     ELSE \* value, passed along; if no filter pass arguments as is
          Deferred_fireWith(st, cb.d, cb.ch, PromiseRef(cb.me),
                            IF cb.filter # "none" THEN <<filterResult>> ELSE args)

\* cb.apply(context, args), for a callback fired by the list of state s of
\* Deferred d.
Call(st, cb, context, args, d, s) ==
  CASE cb.kind = "user" ->
         [st EXCEPT !.log = Append(@, [cb |-> cb.id, d |-> d, s |-> s,
                                       context |-> context, args |-> args,
                                       state |-> st.heap[d].state])]
    [] cb.kind = "whenProgress" ->
         \* function(i, val) { --remaining; results[i] = val; checkComplete(); }
         LET i == Arg(args, 1).n + 1
             c == st.cl[cb.d]
             c2 == [remaining |-> c.remaining - 1,
                    results |-> IF i \in DOMAIN c.results
                                THEN [c.results EXCEPT ![i] = ToScalar(Arg(args, 2))]
                                ELSE c.results]
         IN checkComplete([st EXCEPT !.cl[cb.d] = c2], cb.d)
    [] cb.kind = "whenDone" ->
         \* function(value) { ret.notify(i, value); }
         Deferred_fire(st, cb.d, "pending", <<Num(cb.i), Arg(args, 1)>>)
    [] cb.kind = "whenFail" ->
         \* function(args) { ret.reject(args); }
         Deferred_fire(st, cb.d, "rejected", <<Arg(args, 1)>>)
    [] cb.kind = "then" -> ThenListener(st, cb, context, args)
    [] cb.kind = "fire" ->
         \* retDeferred[fire], bound to retDeferred
         Deferred_fire(st, cb.d, cb.ch, args)
    [] cb.kind = "reenter" ->
         \* function() { ...; d[fire](5); } of the caller
         Deferred_fire([st EXCEPT !.log = Append(@, [cb |-> cb.id, d |-> d, s |-> s,
                                                     context |-> context, args |-> args,
                                                     state |-> st.heap[d].state])],
                       cb.d, cb.ch, ReenterArgs)

\* toolous.forEach(this._callbacks, function(cb) { cb.apply(context, args) })
ForEachCallback(st, cbs, k, context, args, d, s) ==
  IF k > Len(cbs) THEN st
  ELSE ForEachCallback(Call(st, cbs[k], context, args, d, s), cbs, k + 1,
                       context, args, d, s)

\* Mutant of CallbackList_fireWith: the once rule is not applied, the
\* callbacks stay registered after a fire.
CallbackList_fireWith_NeverClears(st, d, s, context, args) ==
  LET options == CallbackListOptions(s)
      st1 == IF options.memory
             THEN [st EXCEPT !.heap[d].listeners[s].fired = TRUE,
                             !.heap[d].listeners[s].firedArgs = args,
                             !.heap[d].listeners[s].firedContext = context]
             ELSE st
  IN ForEachCallback(st1, st1.heap[d].listeners[s].callbacks, 1, context, args, d, s)

\* Mutant of CallbackList_fireWith: the first callback of the list is not
\* invoked.
CallbackList_fireWith_SkipsFirst(st, d, s, context, args) ==
  LET options == CallbackListOptions(s)
      st1 == IF options.memory
             THEN [st EXCEPT !.heap[d].listeners[s].fired = TRUE,
                             !.heap[d].listeners[s].firedArgs = args,
                             !.heap[d].listeners[s].firedContext = context]
             ELSE st
      st2 == ForEachCallback(st1, st1.heap[d].listeners[s].callbacks, 2,
                             context, args, d, s)
  IN IF options.once
     THEN [st2 EXCEPT !.heap[d].listeners[s].callbacks = <<>>]
     ELSE st2

\* Mutant of CallbackList_fireWith: a remembered firing is not replaced by
\* a later one.
CallbackList_fireWith_KeepsFirst(st, d, s, context, args) ==
  LET options == CallbackListOptions(s)
      st1 == IF options.memory /\ ~st.heap[d].listeners[s].fired
             THEN [st EXCEPT !.heap[d].listeners[s].fired = TRUE,
                             !.heap[d].listeners[s].firedArgs = args,
                             !.heap[d].listeners[s].firedContext = context]
             ELSE st
      st2 == ForEachCallback(st1, st1.heap[d].listeners[s].callbacks, 1,
                             context, args, d, s)
  IN IF options.once
     THEN [st2 EXCEPT !.heap[d].listeners[s].callbacks = <<>>]
     ELSE st2

\* CallbackList.prototype.fireWith on the list of state s of Deferred d.
CallbackList_fireWith(st, d, s, context, args) ==
  LET options == CallbackListOptions(s)
      st1 == IF options.memory
             THEN [st EXCEPT !.heap[d].listeners[s].fired = TRUE,
                             !.heap[d].listeners[s].firedArgs = args,
                             !.heap[d].listeners[s].firedContext = context]
             ELSE st
      st2 == ForEachCallback(st1, st1.heap[d].listeners[s].callbacks, 1,
                             context, args, d, s)
  IN IF options.once
     THEN [st2 EXCEPT !.heap[d].listeners[s].callbacks = <<>>]
     ELSE st2

\* Mutant of CallbackList_add: fires without checking for a remembered firing.
CallbackList_add_AlwaysFires(st, d, s, cb) ==
  LET st1 == [st EXCEPT !.heap[d].listeners[s].callbacks = Append(@, cb)]
      l == st1.heap[d].listeners[s]
  IN CallbackList_fireWith(st1, d, s, l.firedContext, l.firedArgs)

\* CallbackList.prototype.add: push, then fire the whole list again when a
\* firing is remembered.
CallbackList_add(st, d, s, cb) ==
  LET st1 == [st EXCEPT !.heap[d].listeners[s].callbacks = Append(@, cb)]
      l == st1.heap[d].listeners[s]
  IN IF l.fired
     THEN CallbackList_fireWith(st1, d, s, l.firedContext, l.firedArgs)
     ELSE st1

\* FSM.prototype._getCallbackList: the list of the state, created on demand.
FSM_getCallbackList(st, d, s) ==
  IF st.heap[d].listeners[s].exists THEN st
  ELSE [st EXCEPT !.heap[d].listeners[s] = NewCallbackList]

\* FSM.prototype.on
FSM_on(st, d, s, cb) == CallbackList_add(FSM_getCallbackList(st, d, s), d, s, cb)

\* The `state` argument of FSM.prototype.state when the caller passed none.
NoStateArg == ""

\* Mutant of FSM_state: no check of the current state's finalState.
FSM_state_NoFinalGuard(st, d, s, context, args) ==
  IF s = NoStateArg THEN [st EXCEPT !.ret = Val(st.heap[d].state, 0)]
  ELSE LET st1 == [st EXCEPT !.heap[d].state = s]
           st2 == FSM_getCallbackList(st1, d, s)
           st3 == CallbackList_fireWith(st2, d, s, context, args)
       IN [st3 EXCEPT !.ret = Val(st3.heap[d].state, 0)]

\* Mutant of FSM_state: the new state is recorded after the list was fired.
FSM_state_FiresBeforeSet(st, d, s, context, args) ==
  IF s = NoStateArg THEN [st EXCEPT !.ret = Val(st.heap[d].state, 0)]
  ELSE LET currentStateOptions == FSM_getStateOptions(st.heap[d].state)
       IN IF currentStateOptions.finalState
          THEN [st EXCEPT !.ret = Val("false", 0)]
          ELSE LET st1 == FSM_getCallbackList(st, d, s)
                   st2 == CallbackList_fireWith(st1, d, s, context, args)
                   st3 == [st2 EXCEPT !.heap[d].state = s]
               IN [st3 EXCEPT !.ret = Val(st3.heap[d].state, 0)]

\* Mutant of FSM_state: the gate is the finalState of the target state.
FSM_state_GatesOnTarget(st, d, s, context, args) ==
  IF s = NoStateArg THEN [st EXCEPT !.ret = Val(st.heap[d].state, 0)]
  ELSE LET targetStateOptions == FSM_getStateOptions(s)
       IN IF targetStateOptions.finalState
          THEN [st EXCEPT !.ret = Val("false", 0)]
          ELSE LET st1 == [st EXCEPT !.heap[d].state = s]
                   st2 == FSM_getCallbackList(st1, d, s)
                   st3 == CallbackList_fireWith(st2, d, s, context, args)
               IN [st3 EXCEPT !.ret = Val(st3.heap[d].state, 0)]

\* Mutant of FSM_state: the target state's list is fired only if a listener
\* registration created it before (cbList = this._listeners[state]).
FSM_state_FiresExistingListOnly(st, d, s, context, args) ==
  IF s = NoStateArg THEN [st EXCEPT !.ret = Val(st.heap[d].state, 0)]
  ELSE LET currentStateOptions == FSM_getStateOptions(st.heap[d].state)
       IN IF currentStateOptions.finalState
          THEN [st EXCEPT !.ret = Val("false", 0)]
          ELSE LET st1 == [st EXCEPT !.heap[d].state = s]
                   st3 == IF st1.heap[d].listeners[s].exists
                          THEN CallbackList_fireWith(st1, d, s, context, args)
                          ELSE st1
               IN [st3 EXCEPT !.ret = Val(st3.heap[d].state, 0)]

\* FSM.prototype.state(state, context, ...args); ret is its return value:
\* the current state when no state was passed, false from a final state,
\* else the new state.
FSM_state(st, d, s, context, args) ==
  IF s = NoStateArg THEN [st EXCEPT !.ret = Val(st.heap[d].state, 0)]
  ELSE LET currentStateOptions == FSM_getStateOptions(st.heap[d].state)
       IN IF currentStateOptions.finalState
          THEN [st EXCEPT !.ret = Val("false", 0)]
          ELSE LET st1 == [st EXCEPT !.heap[d].state = s]
                   st2 == FSM_getCallbackList(st1, d, s)
                   st3 == CallbackList_fireWith(st2, d, s, context, args)
               IN [st3 EXCEPT !.ret = Val(st3.heap[d].state, 0)]

\* Deferred.prototype[listen]: done / fail / progress for s = resolved /
\* rejected / pending.  Returns this.
Deferred_listen(st, d, s, cb) ==
  [FSM_on(st, d, s, cb) EXCEPT !.ret = DeferredRef(d)]

\* Deferred.prototype[fire + "With"]: resolveWith / rejectWith / notifyWith.
Deferred_fireWith(st, d, s, context, args) ==
  [FSM_state(st, d, s, context, args) EXCEPT !.ret = DeferredRef(d)]

\* Deferred.prototype[fire]: resolve / reject / notify; the context is this.
Deferred_fire(st, d, s, args) ==
  [Deferred_fireWith(st, d, s, DeferredRef(d), args) EXCEPT !.ret = DeferredRef(d)]

\* Deferred.prototype.always: this.done(cb).fail(cb)
Deferred_always(st, d, cb) ==
  Deferred_listen(Deferred_listen(st, d, "resolved", cb), d, "rejected", cb)

\* Deferred.prototype.state: return this._fsm.state()
Deferred_state(st, d) == FSM_state(st, d, NoStateArg, Undefined, <<>>)

\* new Deferred(): takes the next id.
NewDeferred(st) ==
  [st EXCEPT !.nextId = @ + 1, !.heap[st.nextId + 1] = NewDeferredObj]

\* Deferred.prototype.then(doneFilter, failFilter, progressFilter); filters
\* is indexed by thenIndex + 1.  Returns retDeferred.promise().
Deferred_then(st, me, filters) ==
  LET st0 == NewDeferred(st)
      retDeferred == st0.nextId
      st1 == Deferred_listen(st0, me, "resolved", ThenCb(me, retDeferred, "resolved",
                                   filters[STATES["resolved"].thenIndex + 1]))
      st2 == Deferred_listen(st1, me, "rejected", ThenCb(me, retDeferred, "rejected",
                                   filters[STATES["rejected"].thenIndex + 1]))
      st3 == Deferred_listen(st2, me, "pending", ThenCb(me, retDeferred, "pending",
                                   filters[STATES["pending"].thenIndex + 1]))
  IN [st3 EXCEPT !.ret = PromiseRef(retDeferred)]

\* checkComplete of `when` (lines 291-295) for the aggregate ret.
checkComplete(st, ret) ==
  IF st.cl[ret].remaining = 0
  THEN Deferred_fire(st, ret, "resolved", <<Arr(st.cl[ret].results)>>)
  ELSE st

RECURSIVE ForEachArg(_, _, _, _)

\* toolous.forEach(args, function(arg, i) {...}) of `when` (lines 315-327);
\* k is i + 1.
ForEachArg(st, args, k, ret) ==
  IF k > Len(args) THEN st
  ELSE LET arg == args[k]
           st1 == IF IsPromiseCapable(arg)
                  THEN Deferred_listen(
                         Deferred_listen(st, arg.n, "resolved", WhenDoneCb(ret, k - 1)),
                         arg.n, "rejected", WhenFailCb(ret))
                  ELSE Deferred_fire(st, ret, "pending", <<Num(k - 1), arg>>)
       IN ForEachArg(st1, args, k + 1, ret)

\* Mutant of when: the counter is registered after the arguments were
\* visited instead of before.
when_CounterRegisteredLast(st, args) ==
  LET st0 == NewDeferred(st)
      ret == st0.nextId
      remaining == Len(args)
      st1 == [st0 EXCEPT !.cl[ret] =
                [remaining |-> remaining,
                 results |-> [i \in 1..remaining |-> ToScalar(Undefined)]]]
  IN IF remaining = 1
     THEN LET single == args[1]
          IN CASE single.k = "deferred" -> [st1 EXCEPT !.ret = PromiseRef(single.n)]
               [] single.k = "promise" -> [st1 EXCEPT !.ret = single]
               [] OTHER -> Deferred_fire(st1, ret, "resolved", <<single>>)
     ELSE LET st2 == ForEachArg(st1, args, 1, ret)
              st3 == Deferred_listen(st2, ret, "pending", WhenProgressCb(ret))
              st4 == checkComplete(st3, ret)
          IN [st4 EXCEPT !.ret = PromiseRef(ret)]

\* exports.when (lines 286-333).
when(st, args) ==
  LET st0 == NewDeferred(st)
      ret == st0.nextId
      remaining == Len(args)
      st1 == [st0 EXCEPT !.cl[ret] =
                [remaining |-> remaining,
                 results |-> [i \in 1..remaining |-> ToScalar(Undefined)]]]
  IN IF remaining = 1
     THEN LET single == args[1]
          IN CASE single.k = "deferred" -> [st1 EXCEPT !.ret = PromiseRef(single.n)]
               [] single.k = "promise" -> [st1 EXCEPT !.ret = single]
               [] OTHER -> Deferred_fire(st1, ret, "resolved", <<single>>)
     ELSE LET st2 == Deferred_listen(st1, ret, "pending", WhenProgressCb(ret))
              st3 == ForEachArg(st2, args, 1, ret)
              st4 == checkComplete(st3, ret)
          IN [st4 EXCEPT !.ret = PromiseRef(ret)]

\* Deferred.when() of src/deferred.js (lines 207-211), called with no
\* arguments: args.length is 0 and the function returns at
\* `if(!args.length) { return; }`, before it constructs a Deferred.
Deferred_when(st) == [st EXCEPT !.ret = Undefined]

---------------------------------------------------------------------------
(* The state machine: each action is one call of the API.                  *)

Cur == [heap |-> heap, cl |-> cl, log |-> log, nextId |-> nextId, ret |-> Undefined]

Ids == 1..MaxDeferreds

\* Argument lists of resolve / reject / notify.
ArgLists == {<<Num(1)>>, <<Num(2), Num(3)>>}

\* Contexts and argument lists of resolveWith / rejectWith / notifyWith.
Contexts == {CtxObj}
WithArgLists == {<<Num(4)>>}

\* Filter triples handed to then / pipe.
FilterTriples == {<<"none", "none", "none">>, <<"value", "value", "value">>}

\* Argument lists of `when`: two promise-capable inputs (a Deferred and a
\* Promise), one of each, and immediate values only.
WhenArgLists ==
  {<<DeferredRef(1), PromiseRef(2)>>, <<DeferredRef(1), Num(7)>>,
   <<Num(7), PromiseRef(2)>>, <<Num(7), Num(8)>>}

\* Argument lists of `when` that hold immediate values only.
ImmediateArgLists ==
  UNION {[1..n -> {Num(7), Num(8)}] : n \in 2..MaxInputs}

NoSettle == [s |-> "pending", context |-> Undefined, args |-> <<>>]

\* The entry of chains of a Deferred no `then` call created.
NoChain == [src |-> 0, filters |-> <<"none", "none", "none">>]

\* The value of whenRet while no `when` call was made.
NotCalled == Val("none", 0)

NoNotify == [fired |-> FALSE, context |-> Undefined, args |-> <<>>]

\* The state after the call returned st.
Commit(st) ==
  /\ heap' = st.heap
  /\ cl' = st.cl
  /\ log' = st.log
  /\ nextId' = st.nextId
  /\ returned' = st.ret

\* History of a producer call; it settles d iff d was pending and the call
\* is a resolve or a reject, and it is a notify that takes effect iff d was
\* pending and the call is a notify.
RecordFire(d, s, context, args) ==
  LET call == [s |-> s, context |-> context, args |-> args]
  IN /\ settled' = IF heap[d].state = "pending" /\ s # "pending"
                   THEN [settled EXCEPT ![d] = call]
                   ELSE settled
     /\ late' = IF heap[d].state # "pending" /\ call # settled[d]
                THEN [late EXCEPT ![d] = @ \cup {s}]
                ELSE late
     /\ notified' = IF heap[d].state = "pending" /\ s = "pending"
                    THEN [notified EXCEPT ![d] =
                            [fired |-> TRUE, context |-> context, args |-> args]]
                    ELSE notified
     /\ nFires' = nFires + 1

\* History of a registration of the user listener Len(regs) + 1 on d, which
\* calls d[fire] for state ch when it is invoked ("" if it calls nothing).
RecordListener(d, op, ch) ==
  regs' = Append(regs, [d |-> d, op |-> op, pre |-> heap[d].state, late |-> late[d],
                        fires |-> ch])

RecordListen(d, op) == RecordListener(d, op, "")

\* A call on a Deferred the caller holds is made on the Deferred, a call on
\* a Deferred of the library (of when, of then) on its Promise view.
Via(d, st) == IF d \in own THEN st ELSE Promise(st, d)

\* d.resolve(...args) / d.reject(...args) / d.notify(...args)
Fire(d, s, args) ==
  /\ d \in own
  /\ Commit(Deferred_fire(Cur, d, s, args))
  /\ RecordFire(d, s, DeferredRef(d), args)
  /\ UNCHANGED <<own, agg, whenArgs, whenRet, chains, regs, nConsumes>>

\* d.resolveWith(context, ...args) / d.rejectWith(...) / d.notifyWith(...)
FireWith(d, s, context, args) ==
  /\ d \in own
  /\ Commit(Deferred_fireWith(Cur, d, s, context, args))
  /\ RecordFire(d, s, context, args)
  /\ UNCHANGED <<own, agg, whenArgs, whenRet, chains, regs, nConsumes>>

\* d.done(cb) / d.fail(cb) / d.progress(cb) with a new listener cb
Listen(d, s) ==
  /\ heap[d].alloc
  /\ Commit(Via(d, Deferred_listen(Cur, d, s, UserCb(Len(regs) + 1))))
  /\ RecordListen(d, STATES[s].listen)
  /\ nConsumes' = nConsumes + 1
  /\ UNCHANGED <<own, agg, whenArgs, whenRet, chains, settled, late, notified, nFires>>

\* d.done(cb) / d.fail(cb) with a new listener cb that calls d.resolve(5),
\* d.reject(5) or d.notify(5) (ch) when it is invoked
ListenReenter(d, s, ch) ==
  /\ heap[d].alloc
  /\ Commit(Via(d, Deferred_listen(Cur, d, s, ReenterCb(Len(regs) + 1, d, ch))))
  /\ RecordListener(d, STATES[s].listen, ch)
  /\ nConsumes' = nConsumes + 1
  /\ UNCHANGED <<own, agg, whenArgs, whenRet, chains, settled, late, notified, nFires>>

\* d.always(cb) with a new listener cb
Always(d) ==
  /\ heap[d].alloc
  /\ Commit(Via(d, Deferred_always(Cur, d, UserCb(Len(regs) + 1))))
  /\ RecordListen(d, "always")
  /\ nConsumes' = nConsumes + 1
  /\ UNCHANGED <<own, agg, whenArgs, whenRet, chains, settled, late, notified, nFires>>

\* d.then(...filters) / d.pipe(...filters)
Then(d, filters) ==
  /\ heap[d].alloc
  /\ nextId < MaxDeferreds
  /\ Commit(Via(d, Deferred_then(Cur, d, filters)))
  /\ chains' = [chains EXCEPT ![nextId + 1] = [src |-> d, filters |-> filters]]
  /\ nConsumes' = nConsumes + 1
  /\ UNCHANGED <<own, agg, whenArgs, whenRet, regs, settled, late, notified, nFires>>

\* d.state()
State(d) ==
  /\ heap[d].alloc
  /\ Commit(Via(d, Deferred_state(Cur, d)))
  /\ UNCHANGED <<own, agg, whenArgs, whenRet, chains, regs, settled, late, notified, nFires, nConsumes>>

\* d.promise() on a Deferred (line 212-214) or on its Promise (194-196)
PromiseOf(d) ==
  /\ heap[d].alloc
  /\ Commit([Cur EXCEPT !.ret = PromiseRef(d)])
  /\ UNCHANGED <<own, agg, whenArgs, whenRet, chains, regs, settled, late, notified, nFires, nConsumes>>

\* p.done(cb) / p.fail(cb) / p.progress(cb) on the Promise view p of d
PromiseListen(d, s) ==
  /\ heap[d].alloc
  /\ Commit(Promise(Deferred_listen(Cur, d, s, UserCb(Len(regs) + 1)), d))
  /\ RecordListen(d, STATES[s].listen)
  /\ nConsumes' = nConsumes + 1
  /\ UNCHANGED <<own, agg, whenArgs, whenRet, chains, settled, late, notified, nFires>>

\* p.always(cb) on the Promise view p of d
PromiseAlways(d) ==
  /\ heap[d].alloc
  /\ Commit(Promise(Deferred_always(Cur, d, UserCb(Len(regs) + 1)), d))
  /\ RecordListen(d, "always")
  /\ nConsumes' = nConsumes + 1
  /\ UNCHANGED <<own, agg, whenArgs, whenRet, chains, settled, late, notified, nFires>>

\* p.then(...filters) / p.pipe(...filters) on the Promise view p of d
PromiseThen(d, filters) ==
  /\ heap[d].alloc
  /\ nextId < MaxDeferreds
  /\ Commit(Promise(Deferred_then(Cur, d, filters), d))
  /\ chains' = [chains EXCEPT ![nextId + 1] = [src |-> d, filters |-> filters]]
  /\ nConsumes' = nConsumes + 1
  /\ UNCHANGED <<own, agg, whenArgs, whenRet, regs, settled, late, notified, nFires>>

\* p.state() on the Promise view p of d
PromiseState(d) ==
  /\ heap[d].alloc
  /\ Commit(Promise(Deferred_state(Cur, d), d))
  /\ UNCHANGED <<own, agg, whenArgs, whenRet, chains, regs, settled, late, notified,
                 nFires, nConsumes>>

\* p.promise() on the Promise view p of d: return this (lines 194-196)
PromisePromise(d) ==
  /\ heap[d].alloc
  /\ Commit([Cur EXCEPT !.ret = PromiseRef(d)])
  /\ UNCHANGED <<own, agg, whenArgs, whenRet, chains, regs, settled, late, notified,
                 nFires, nConsumes>>

\* d.promise() on the Deferred d: the Promise its constructor made (lines
\* 211-214)
DeferredPromise(d) ==
  /\ d \in own
  /\ Commit([Cur EXCEPT !.ret = PromiseRef(d)])
  /\ UNCHANGED <<own, agg, whenArgs, whenRet, chains, regs, settled, late, notified,
                 nFires, nConsumes>>

\* d._fsm.state(s, context, ...args), the transition behind the producer
\* operations
FsmState(d, s, context, args) ==
  /\ d \in own
  /\ Commit(FSM_state(Cur, d, s, context, args))
  /\ RecordFire(d, s, context, args)
  /\ UNCHANGED <<own, agg, whenArgs, whenRet, chains, regs, nConsumes>>

\* d._fsm.state()
FsmGet(d) ==
  /\ d \in own
  /\ Commit(FSM_state(Cur, d, NoStateArg, Undefined, <<>>))
  /\ UNCHANGED <<own, agg, whenArgs, whenRet, chains, regs, settled, late, notified,
                 nFires, nConsumes>>

\* when(...args), called once
When(args) ==
  /\ agg = 0
  /\ whenRet = NotCalled
  /\ nextId < MaxDeferreds
  /\ Commit(when(Cur, args))
  /\ agg' = nextId + 1
  /\ whenArgs' = args
  /\ whenRet' = returned'
  /\ own' = IF returned'.k = "deferred" THEN own \cup {returned'.n} ELSE own
  /\ UNCHANGED <<chains, regs, settled, late, notified, nFires, nConsumes>>

\* Deferred.when() of src/deferred.js, called once with no arguments
DeferredWhen ==
  /\ whenRet = NotCalled
  /\ Commit(Deferred_when(Cur))
  /\ whenRet' = returned'
  /\ UNCHANGED <<own, agg, whenArgs, chains, regs, settled, late, notified, nFires,
                 nConsumes>>

\* The state after n Deferreds were constructed by the caller.
InitWith(n) ==
  /\ heap = [d \in Ids |-> IF d <= n THEN NewDeferredObj ELSE Unallocated]
  /\ cl = [d \in Ids |-> NoClosure]
  /\ log = <<>>
  /\ nextId = n
  /\ returned = Undefined
  /\ own = 1..n
  /\ agg = 0
  /\ whenArgs = <<>>
  /\ whenRet = NotCalled
  /\ chains = [d \in Ids |-> NoChain]
  /\ regs = <<>>
  /\ settled = [d \in Ids |-> NoSettle]
  /\ late = [d \in Ids |-> {}]
  /\ notified = [d \in Ids |-> NoNotify]
  /\ nFires = 0
  /\ nConsumes = 0

(* Spec: one Deferred, its producer and its listener registrations.        *)
Init == InitWith(1)

Next ==
  \/ \E d \in own, s \in StateNames, args \in ArgLists :
       nFires < MaxFires /\ Fire(d, s, args)
  \/ \E d \in own, s \in StateNames, context \in Contexts, args \in WithArgLists :
       nFires < MaxFires /\ FireWith(d, s, context, args)
  \/ \E d \in own, s \in StateNames : nConsumes < MaxConsumes /\ Listen(d, s)
  \/ \E d \in own : nConsumes < MaxConsumes /\ Always(d)

Spec == Init /\ [][Next]_vars

(* SpecWhen: two Deferreds, one when(x1, x2) over them and immediate       *)
(* values, and the consumer calls on the promise `when` returned.          *)
InitWhen == InitWith(2)

NextWhen ==
  \/ \E d \in own, s \in StateNames, args \in ArgLists :
       nFires < MaxInputFires /\ Fire(d, s, args)
  \/ \E args \in WhenArgLists : When(args)
  \/ \E s \in StateNames : agg # 0 /\ nConsumes < MaxAggCalls /\ Listen(agg, s)
  \/ agg # 0 /\ nConsumes < MaxAggCalls /\ Always(agg)
  \/ \E filters \in FilterTriples :
       agg # 0 /\ nConsumes < MaxAggCalls /\ Then(agg, filters)
  \/ agg # 0 /\ State(agg)
  \/ agg # 0 /\ PromiseOf(agg)

SpecWhen == InitWhen /\ [][NextWhen]_vars

(* SpecWhenValues: one when(v1, .., vN) over immediate values, and the     *)
(* consumer calls on the promise it returned.                              *)
InitWhenValues == InitWith(0)

NextWhenValues ==
  \/ \E args \in ImmediateArgLists : When(args)
  \/ \E s \in StateNames : agg # 0 /\ nConsumes < MaxAggCalls /\ Listen(agg, s)
  \/ agg # 0 /\ nConsumes < MaxAggCalls /\ Always(agg)
  \/ \E filters \in FilterTriples :
       agg # 0 /\ nConsumes < MaxAggCalls /\ Then(agg, filters)
  \/ agg # 0 /\ State(agg)
  \/ agg # 0 /\ PromiseOf(agg)

SpecWhenValues == InitWhenValues /\ [][NextWhenValues]_vars

(* SpecWhenFew: one Deferred, one `when` call with fewer than two          *)
(* arguments, and the producer and consumer calls on what the caller then  *)
(* holds.                                                                  *)
InitWhenFew == InitWith(1)

\* Argument lists of `when` with fewer than two arguments.
FewArgLists == {<<>>, <<Num(7)>>, <<DeferredRef(1)>>, <<PromiseRef(1)>>}

\* The Deferred behind the object the `when` call returned.
Held == IF IsPromiseCapable(whenRet) THEN {whenRet.n} ELSE {}

NextWhenFew ==
  \/ \E d \in own, s \in StateNames, args \in ArgLists :
       nFires < MaxInputFires /\ Fire(d, s, args)
  \/ \E args \in FewArgLists : When(args)
  \/ DeferredWhen
  \/ \E d \in Held, s \in StateNames : nConsumes < MaxAggCalls /\ Listen(d, s)
  \/ \E d \in Held : nConsumes < MaxAggCalls /\ Always(d)
  \/ \E d \in Held, filters \in FilterTriples :
       nConsumes < MaxAggCalls /\ Then(d, filters)
  \/ \E d \in Held : State(d)
  \/ \E d \in Held : PromiseOf(d)

SpecWhenFew == InitWhenFew /\ [][NextWhenFew]_vars

\* The Deferreds `then` calls created.
Chained == {c \in Ids : chains[c].src # 0}

\* Argument lists of the resolve and reject calls on a Deferred that is the
\* source or the filter result of a `then`.
SettleArgLists == {<<Num(2), Num(3)>>}

(* SpecThen: one Deferred p, the `then` calls on it with filters that are  *)
(* absent or return a plain value, and listeners on the promises `then`    *)
(* returned.                                                               *)
InitThen == InitWith(1)

NextThen ==
  \/ \E d \in own, args \in ArgLists :
       nFires < MaxThenFires /\ Fire(d, "pending", args)
  \/ \E d \in own, s \in {"resolved", "rejected"}, args \in SettleArgLists :
       nFires < MaxThenFires /\ Fire(d, s, args)
  \/ \E d \in own, filters \in FilterTriples :
       Cardinality(Chained) < MaxThens /\ Then(d, filters)
  \/ \E c \in Chained, s \in StateNames : Len(regs) < MaxThenListens /\ Listen(c, s)

SpecThen == InitThen /\ [][NextThen]_vars

(* SpecAdopt: a Deferred p and the Deferred q = FilterDeferred, one call   *)
(* c = p.then(f) whose done filter (and fail filter) returns q or          *)
(* q.promise(), and listeners on c.                                        *)
InitAdopt == InitWith(2)

\* Filter triples whose done filter returns a promise-capable value.
AdoptTriples == {<<"promise", "none", "none">>, <<"deferred", "deferred", "none">>}

\* Argument lists of the producer calls on p.
SourceArgLists == {<<Num(1)>>}

NextAdopt ==
  \/ \E d \in own \ {FilterDeferred.n}, s \in StateNames, args \in SourceArgLists :
       nFires < MaxAdoptFires /\ Fire(d, s, args)
  \/ \E args \in ArgLists :
       nFires < MaxAdoptFires /\ Fire(FilterDeferred.n, "pending", args)
  \/ \E s \in {"resolved", "rejected"}, args \in SettleArgLists :
       nFires < MaxAdoptFires /\ Fire(FilterDeferred.n, s, args)
  \/ \E d \in own \ {FilterDeferred.n}, filters \in AdoptTriples :
       Chained = {} /\ Then(d, filters)
  \/ \E c \in Chained, s \in StateNames : Len(regs) < MaxThenListens /\ Listen(c, s)

SpecAdopt == InitAdopt /\ [][NextAdopt]_vars

(* SpecSettle: a Deferred p and the Deferred q = FilterDeferred, the       *)
(* producer calls on both, and one call c = p.then(fDone, fFail,           *)
(* fProgress) where each filter is absent, returns a plain value, returns  *)
(* q or returns q.promise(); q may be settled before the filter returns it.*)
InitSettle == InitWith(2)

\* What a filter of `then` is: absent, or a function returning a value, a
\* Deferred or a Promise.
FilterKinds == {"none", "value", "deferred", "promise"}

\* Every triple of filters.
AllFilterTriples ==
  {<<fDone, fFail, fProgress>> : fDone \in FilterKinds, fFail \in FilterKinds,
                                 fProgress \in FilterKinds}

NextSettle ==
  \/ \E d \in own, s \in StateNames, args \in SourceArgLists :
       nFires < MaxSettleFires /\ Fire(d, s, args)
  \/ \E d \in own \ {FilterDeferred.n}, filters \in AllFilterTriples :
       Chained = {} /\ Then(d, filters)

SpecSettle == InitSettle /\ [][NextSettle]_vars

(* SpecProgress: one Deferred, its producer calls - notifyWith among them  *)
(* - and its listener registrations.                                       *)
InitProgress == InitWith(1)

NextProgress ==
  \/ \E d \in own, s \in StateNames, args \in ArgLists :
       nFires < MaxProgressFires /\ Fire(d, s, args)
  \/ \E d \in own, context \in Contexts, args \in ArgLists :
       nFires < MaxProgressFires /\ FireWith(d, "pending", context, args)
  \/ \E d \in own, s \in StateNames :
       Len(regs) < MaxProgressListens /\ Listen(d, s)

SpecProgress == InitProgress /\ [][NextProgress]_vars

(* SpecFSM: the FSM of one Deferred, the calls of its state function with  *)
(* and without a new state, and listener registrations.                    *)
InitFSM == InitWith(1)

NextFSM ==
  \/ \E d \in own, s \in StateNames, context \in Contexts, args \in ArgLists :
       nFires < MaxTransitions /\ FsmState(d, s, context, args)
  \/ \E d \in own : FsmGet(d)
  \/ \E d \in own, s \in StateNames : Len(regs) < MaxFsmListens /\ Listen(d, s)

SpecFSM == InitFSM /\ [][NextFSM]_vars

(* SpecPromise: one Deferred, its producer, and the calls on its Promise   *)
(* view and on the Promise views `then` returns.                           *)
InitPromise == InitWith(1)

NextPromise ==
  \/ \E d \in own, s \in StateNames, args \in SettleArgLists :
       nFires < MaxPromiseFires /\ Fire(d, s, args)
  \/ \E d \in Ids, s \in StateNames :
       nConsumes < MaxPromiseCalls /\ PromiseListen(d, s)
  \/ \E d \in Ids : nConsumes < MaxPromiseCalls /\ PromiseAlways(d)
  \/ \E d \in Ids, filters \in FilterTriples :
       nConsumes < MaxPromiseCalls /\ PromiseThen(d, filters)
  \/ \E d \in Ids : PromiseState(d)
  \/ \E d \in Ids : PromisePromise(d)
  \/ \E d \in own : DeferredPromise(d)

SpecPromise == InitPromise /\ [][NextPromise]_vars

(* SpecReenter: one Deferred with plain listeners and with done and fail   *)
(* listeners that call a producer operation of the Deferred.               *)
InitReenter == InitWith(1)

NextReenter ==
  \/ \E d \in own, s \in StateNames, args \in SettleArgLists :
       nFires < MaxReenterFires /\ Fire(d, s, args)
  \/ \E d \in own, s \in StateNames : Len(regs) < MaxReenterListens /\ Listen(d, s)
  \/ \E d \in own, s \in {"resolved", "rejected"}, ch \in StateNames :
       Len(regs) < MaxReenterListens /\ ListenReenter(d, s, ch)

SpecReenter == InitReenter /\ [][NextReenter]_vars

---------------------------------------------------------------------------
(* Vocabulary of the properties.                                           *)

Final(d) == heap[d].state \in {"resolved", "rejected"}

\* The remembered firing of each of the three channels of d.
Memory(d) ==
  [s \in StateNames |->
     [fired |-> heap[d].listeners[s].fired,
      firedContext |-> heap[d].listeners[s].firedContext,
      firedArgs |-> heap[d].listeners[s].firedArgs]]

\* The user listeners registered on d for state s (always registers its
\* listener for both final states).
ListenersOf(d, s) ==
  {k \in 1..Len(regs) :
     /\ regs[k].d = d
     /\ \/ regs[k].op = STATES[s].listen
        \/ regs[k].op = "always" /\ s \in {"resolved", "rejected"}}

\* The invocations of user listener k as a listener of state s.
Invocations(k, s) == {i \in 1..Len(log) : log[i].cb = k /\ log[i].s = s}

\* Some producer call on d.
ProducerCall(d) ==
  \/ \E s \in StateNames, args \in ArgLists : Fire(d, s, args)
  \/ \E s \in StateNames, context \in Contexts, args \in WithArgLists :
       FireWith(d, s, context, args)

---------------------------------------------------------------------------
(* C1: once a Deferred is resolved or rejected its state never changes     *)
(* again; the settling call that came first stays the remembered one, and  *)
(* every later resolve, reject or notify invokes no listener and leaves    *)
(* the remembered (context, args) of all three channels unchanged.         *)

C1_FirstSettleWins ==
  \A d \in own :
    /\ heap[d].state = settled[d].s
    /\ Final(d) =>
         /\ heap[d].listeners[heap[d].state].fired
         /\ heap[d].listeners[heap[d].state].firedContext = settled[d].context
         /\ heap[d].listeners[heap[d].state].firedArgs = settled[d].args

C1_SettledStep ==
  \A d \in own :
    Final(d) =>
      /\ heap'[d].state = heap[d].state
      /\ Memory(d)' = Memory(d)
      /\ (nFires' # nFires /\ ProducerCall(d)) => log' = log /\ heap' = heap

C1_SettledIsFinal == [](C1_FirstSettleWins) /\ [][C1_SettledStep]_vars

\* d settled and a later, different producer call was made on it.
C1_Witness ==
  \E d \in own : Final(d) /\ late[d] # {}

---------------------------------------------------------------------------
(* C2: after resolve(a...) and a later resolve(b...), every done listener  *)
(* - registered before the first resolve, between the two or after the     *)
(* second - has been invoked exactly once, with a..., and the state is     *)
(* "resolved".                                                             *)

C2_DoneOnceWithFirstArgs ==
  \A d \in own :
    settled[d].s = "resolved" =>
      /\ heap[d].state = "resolved"
      /\ \A k \in ListenersOf(d, "resolved") :
           /\ Cardinality(Invocations(k, "resolved")) = 1
           /\ \A i \in Invocations(k, "resolved") : log[i].args = settled[d].args

\* Two resolves with different arguments, and a done listener of each of
\* the three periods.
C2_Witness ==
  \E d \in own :
    /\ settled[d].s = "resolved"
    /\ "resolved" \in late[d]
    /\ \E k1, k2, k3 \in ListenersOf(d, "resolved") :
         /\ regs[k1].pre = "pending"
         /\ regs[k2].pre = "resolved" /\ "resolved" \notin regs[k2].late
         /\ regs[k3].pre = "resolved" /\ "resolved" \in regs[k3].late

---------------------------------------------------------------------------
(* C3: a done (fail) listener registered after the Deferred resolved       *)
(* (rejected) has been invoked by the time the registration returns,       *)
(* exactly once, with the context and arguments of the settling call, also *)
(* when no listener existed at settlement; and between calls the once-list *)
(* of the settled state is empty.                                          *)

C3_LateListenerReplayed ==
  \A d \in own :
    /\ \A s \in {"resolved", "rejected"} :
         \A k \in ListenersOf(d, s) :
           regs[k].pre = s =>
             /\ Cardinality(Invocations(k, s)) = 1
             /\ \A i \in Invocations(k, s) :
                  /\ log[i].context = settled[d].context
                  /\ log[i].args = settled[d].args
    /\ Final(d) => heap[d].listeners[heap[d].state].callbacks = <<>>

\* The first listener ever registered is a done listener on a Deferred that
\* resolveWith had already resolved with a context of the caller.
C3_Witness ==
  /\ Len(regs) >= 1
  /\ regs[1].op = "done"
  /\ regs[1].pre = "resolved"
  /\ settled[regs[1].d].context = CtxObj
  /\ Invocations(1, "resolved") # {}

---------------------------------------------------------------------------
(* C4: a fail listener is never invoked on a Deferred that resolved, a     *)
(* done listener never on one that rejected, and no behaviour invokes both *)
(* a done and a fail listener of the same Deferred.                        *)

C4_OnlyOneOutcomeFires ==
  \A d \in own :
    \A i \in 1..Len(log) :
      log[i].d = d =>
        /\ log[i].s = "rejected" => heap[d].state = "rejected" /\ log[i].state = "rejected"
        /\ log[i].s = "resolved" => heap[d].state = "resolved" /\ log[i].state = "resolved"
        /\ \A j \in 1..Len(log) :
             log[j].d = d => ~(log[i].s = "resolved" /\ log[j].s = "rejected")

\* A resolved Deferred with a fail listener registered before and another
\* after the resolve, and a done listener that ran.
C4_Witness ==
  \E d \in own :
    /\ heap[d].state = "resolved"
    /\ \E k1, k2 \in ListenersOf(d, "rejected") :
         regs[k1].pre = "pending" /\ regs[k2].pre = "resolved"
    /\ \E i \in 1..Len(log) : log[i].d = d /\ log[i].s = "resolved"

---------------------------------------------------------------------------
(* Vocabulary of the properties of `when`.                                 *)

\* The positions of the promise-capable arguments of the `when` call.
CapableInputs == {i \in 1..Len(whenArgs) : IsPromiseCapable(whenArgs[i])}

\* when(x1, .., xN) with N >= 2 was called.
Aggregated == agg # 0 /\ Len(whenArgs) >= 2

\* A consumer call on the Promise view of d.
PromiseCall(d) ==
  \/ \E s \in StateNames : Listen(d, s)
  \/ Always(d)
  \/ \E filters \in FilterTriples : Then(d, filters)
  \/ State(d)
  \/ PromiseOf(d)

---------------------------------------------------------------------------
(* C5: a Promise view cannot force a transition: it carries no producer    *)
(* operation, and no call of state, then, done, fail, always, pipe,        *)
(* progress or promise on it changes the state of the Deferred behind it.  *)

C5_PromiseCallStep ==
  \A d \in Ids \ own :
    heap[d].alloc /\ PromiseCall(d) => heap'[d].state = heap[d].state

C5_PromiseCannotTransition ==
  [](PromiseOperations \cap ProducerFunctions = {}) /\ [][C5_PromiseCallStep]_vars

---------------------------------------------------------------------------
(* C6: the aggregate of when(x1..xN), N >= 2, is "resolved" only if every  *)
(* promise-capable input has resolved.                                     *)

C6_ResolvedOnlyWhenAllResolved ==
  Aggregated /\ heap[agg].state = "resolved" =>
    \A i \in CapableInputs : heap[whenArgs[i].n].state = "resolved"

---------------------------------------------------------------------------
(* C7: whenever the aggregate of when(x1..xN), N >= 2, is resolved, it was *)
(* resolved with one array of length N whose element i is the immediate    *)
(* value x_i or the first value input x_i resolved with.                   *)

C7_ResultsInArgumentOrder ==
  Aggregated /\ heap[agg].state = "resolved" =>
    LET args == heap[agg].listeners["resolved"].firedArgs
    IN /\ Len(args) = 1
       /\ args[1].k = "array"
       /\ Len(args[1].elems) = Len(whenArgs)
       /\ \A i \in 1..Len(whenArgs) :
            IF i \in CapableInputs
            THEN /\ settled[whenArgs[i].n].s = "resolved"
                 /\ args[1].elems[i] = ToScalar(Arg(settled[whenArgs[i].n].args, 1))
            ELSE args[1].elems[i] = ToScalar(whenArgs[i])

---------------------------------------------------------------------------
(* C8: as soon as a promise-capable input of when(x1..xN), N >= 2, is      *)
(* rejected the aggregate is "rejected"; from then on neither its state    *)
(* nor its remembered rejection changes and no done listener of it runs.   *)

C8_RejectedWithInput ==
  Aggregated =>
    ((\E i \in CapableInputs : heap[whenArgs[i].n].state = "rejected")
       => heap[agg].state = "rejected")

C8_RejectedStep ==
  agg # 0 /\ heap[agg].state = "rejected" =>
    /\ heap'[agg].state = "rejected"
    /\ Memory(agg)' = Memory(agg)
    /\ \A i \in 1..Len(log') :
         i > Len(log) => ~(log'[i].d = agg /\ log'[i].s = "resolved")

C8_FirstRejectionWins == [](C8_RejectedWithInput) /\ [][C8_RejectedStep]_vars

---------------------------------------------------------------------------
(* C9: the fail listeners of the aggregate of when(x1..xN), N >= 2,        *)
(* receive the whole argument list (e1, .., ek) an input rejected with.    *)

C9_RejectArgsForwarded ==
  Aggregated =>
    \A i \in 1..Len(log) :
      log[i].d = agg /\ log[i].s = "rejected" =>
        \E j \in CapableInputs :
          /\ settled[whenArgs[j].n].s = "rejected"
          /\ log[i].args = settled[whenArgs[j].n].args

---------------------------------------------------------------------------
(* C10: when(v1..vN), N >= 2, over immediate values returns a promise that *)
(* is resolved already, and every done listener registered on it has been  *)
(* invoked by the time its registration returns, exactly once, with the    *)
(* single argument [v1..vN].                                               *)

AllImmediate == Aggregated /\ CapableInputs = {}

C10_ResolvedWithValues ==
  AllImmediate =>
    /\ heap[agg].state = "resolved"
    /\ \A k \in ListenersOf(agg, "resolved") :
         /\ Cardinality(Invocations(k, "resolved")) = 1
         /\ \A i \in Invocations(k, "resolved") :
              log[i].args = <<Arr([j \in 1..Len(whenArgs) |-> ToScalar(whenArgs[j])])>>

C10_WhenStep ==
  (\E args \in ImmediateArgLists : When(args)) =>
    /\ returned' = PromiseRef(agg')
    /\ heap'[agg'].state = "resolved"

C10_ImmediateValuesResolve == [](C10_ResolvedWithValues) /\ [][C10_WhenStep]_vars

\* when(7, 8) was called and a done listener registered on its promise ran.
C10_Witness ==
  /\ AllImmediate
  /\ whenArgs = <<Num(7), Num(8)>>
  /\ \E k \in ListenersOf(agg, "resolved") :
       regs[k].op = "done" /\ Invocations(k, "resolved") # {}

---------------------------------------------------------------------------
(* C11: when() called with no arguments returns a promise that is in state *)
(* "resolved" already, and the done listeners of that promise are invoked  *)
(* with one empty sequence.                                                *)

C11_NoArgumentsResolvedEmpty ==
  whenRet # NotCalled /\ whenArgs = <<>> =>
    /\ whenRet.k = "promise"
    /\ heap[whenRet.n].state = "resolved"
    /\ \A k \in ListenersOf(whenRet.n, "resolved") :
         /\ Invocations(k, "resolved") # {}
         /\ \A i \in Invocations(k, "resolved") : log[i].args = <<Arr(<<>>)>>

---------------------------------------------------------------------------
(* C12: when(v) with one immediate value v returns a Promise view - an     *)
(* object without the producer operations - of a new Deferred that is      *)
(* resolved already with v as its only argument.                           *)

C12_SingleValueResolvedPromise ==
  whenRet # NotCalled /\ Len(whenArgs) = 1 /\ ~IsPromiseCapable(whenArgs[1]) =>
    /\ whenRet.k = "promise"
    /\ PromiseOperations \cap ProducerFunctions = {}
    /\ whenRet.n = agg
    /\ heap[agg].state = "resolved"
    /\ heap[agg].listeners["resolved"].firedArgs = <<whenArgs[1]>>

---------------------------------------------------------------------------
(* Vocabulary of the properties of `then`.                                 *)

\* The filter c = p.then(...) was given for state s.
ThenFilter(c, s) == chains[c].filters[STATES[s].thenIndex + 1]

\* What the listeners of c are to receive when the source fired state s
\* with args and the filter of s is absent or returns a plain value.
PassedBy(filter, args) == IF filter = "none" THEN args ELSE <<FilterValue>>
Passed(c, s, args) == PassedBy(ThenFilter(c, s), args)

\* The entries the step added to the log.
NewEntries == (Len(log) + 1)..Len(log')

---------------------------------------------------------------------------
(* C13: for c = p.then(fDone, fFail, fProgress) with filters that are      *)
(* absent or return a plain value, c is resolved (rejected) exactly when p *)
(* is, c has been notified only if p has and is notified when p is, and    *)
(* what c remembers and the listeners of c receive is the one return value *)
(* of the filter of that channel, or the argument list of p unchanged when *)
(* the channel has no filter.                                              *)

C13_SameChannel ==
  \A c \in Chained :
    LET p == chains[c].src
    IN /\ heap[c].state = heap[p].state
       /\ \A s \in {"resolved", "rejected"} :
            IF heap[p].state = s
            THEN /\ Memory(c)[s].fired
                 /\ Memory(c)[s].firedArgs = Passed(c, s, settled[p].args)
            ELSE ~Memory(c)[s].fired
       /\ Memory(c)["pending"].fired =>
            /\ notified[p].fired
            /\ Memory(c)["pending"].firedArgs = Passed(c, "pending", notified[p].args)
       /\ notified[p].fired /\ ~Final(p) => Memory(c)["pending"].fired
       /\ \A i \in 1..Len(log) :
            log[i].d = c /\ log[i].s # "pending" =>
              /\ log[i].s = heap[p].state
              /\ log[i].args = Passed(c, log[i].s, settled[p].args)

C13_NotifiedStep ==
  \A i \in NewEntries :
    log'[i].d \in Chained' /\ log'[i].s = "pending" =>
      LET chain == chains'[log'[i].d]
      IN /\ notified'[chain.src].fired
         /\ log'[i].args = PassedBy(chain.filters[STATES["pending"].thenIndex + 1],
                                    notified'[chain.src].args)

---------------------------------------------------------------------------
(* C14: for c = p.then(f) whose filter f, invoked on the outcome of p,     *)
(* returned the promise-capable q: c is pending while q is, resolved iff q *)
(* is and rejected iff q is, with the arguments q settled with - also when *)
(* q had settled before f ran - and every notify that takes effect on q    *)
(* from then on notifies c and its progress listeners with q's arguments;  *)
(* a q that was notified before f ran and is pending still hands c its     *)
(* last notify at once (c remembers it unless p had a notify to pass on).  *)

\* p settled and the filter of c = p.then(...) for that outcome returned q.
Adopted(c) ==
  /\ c \in Chained
  /\ Final(chains[c].src)
  /\ ThenFilter(c, heap[chains[c].src].state) \in {"promise", "deferred"}

C14_MirrorsAdopted ==
  \A c \in Chained :
    Adopted(c) =>
      LET q == FilterDeferred.n
      IN /\ heap[c].state = heap[q].state
         /\ \A s \in {"resolved", "rejected"} :
              IF heap[q].state = s
              THEN /\ Memory(c)[s].fired
                   /\ Memory(c)[s].firedArgs = settled[q].args
              ELSE ~Memory(c)[s].fired
         /\ notified[q].fired /\ ~Final(q) /\ ~notified[chains[c].src].fired =>
              /\ Memory(c)["pending"].fired
              /\ Memory(c)["pending"].firedArgs = notified[q].args
         /\ \A i \in 1..Len(log) :
              log[i].d = c /\ log[i].s # "pending" =>
                /\ log[i].s = heap[q].state
                /\ log[i].args = settled[q].args

C14_NotifyStep ==
  \A args \in ArgLists :
    LET q == FilterDeferred.n
    IN nFires' # nFires /\ ~Final(q) /\ Fire(q, "pending", args) =>
         \A c \in Chained :
           Adopted(c) =>
             /\ Memory(c)'["pending"].fired
             /\ Memory(c)'["pending"].firedArgs = args
             /\ \A k \in ListenersOf(c, "pending") :
                  \E i \in NewEntries :
                    log'[i].cb = k /\ log'[i].d = c /\ log'[i].args = args

---------------------------------------------------------------------------
(* C15: on the list of the progress channel (memory = true, once = false)  *)
(* that never fired, one fireWith(ctx, a, b) after any sequence of adds    *)
(* invokes every callback added, once each, with receiver ctx and          *)
(* arguments (a, b), in the order they were added, and nothing else.       *)

\* The progress listeners registered on d, in the order of registration.
ProgressListeners(d) ==
  SelectSeq([k \in 1..Len(regs) |-> k],
            LAMBDA k : regs[k].d = d /\ regs[k].op = "progress")

C15_FireStep ==
  \A d \in own :
    \A context \in Contexts \cup {DeferredRef(d)}, args \in ArgLists :
      (/\ nFires' # nFires
       /\ heap[d].state = "pending"
       /\ ~notified[d].fired
       /\ FireWith(d, "pending", context, args))
        => log' = log \o [i \in 1..Len(ProgressListeners(d)) |->
                            [cb |-> ProgressListeners(d)[i], d |-> d, s |-> "pending",
                             context |-> context, args |-> args, state |-> "pending"]]

C15_FiresAllInOrder == [][C15_FireStep]_vars

\* Two progress listeners were registered, then notifyWith(ctx, 2, 3) was
\* called and invoked the first and then the second.
C15_Witness ==
  /\ Len(regs) = 2
  /\ regs[1].op = "progress" /\ regs[2].op = "progress"
  /\ nFires = 1
  /\ notified[1] = [fired |-> TRUE, context |-> CtxObj, args |-> <<Num(2), Num(3)>>]
  /\ Len(log) = 2
  /\ log[1].cb = 1 /\ log[2].cb = 2

---------------------------------------------------------------------------
(* C16: a registration on a channel that holds a remembered firing invokes *)
(* the new listener, once, with the remembered context and arguments, and  *)
(* invokes no other listener - on the progress channel too, where the      *)
(* listeners registered earlier stay in the list.                          *)

C16_AddStep ==
  \A d \in own, s \in StateNames :
    (Len(regs') # Len(regs) /\ Memory(d)[s].fired /\ Listen(d, s))
      => log' = Append(log, [cb |-> Len(regs) + 1, d |-> d, s |-> s,
                             context |-> Memory(d)[s].firedContext,
                             args |-> Memory(d)[s].firedArgs,
                             state |-> heap[d].state])

C16_AddInvokesOnlyNew == [][C16_AddStep]_vars

---------------------------------------------------------------------------
(* C18: a progress listener registered on a Deferred that was notified is  *)
(* invoked by the registration, once, with the context and arguments of    *)
(* the last notify that took effect, also when the Deferred has settled    *)
(* since; registered on a Deferred that was never notified, it is not      *)
(* invoked by the registration, and nothing else is.                       *)

C18_ListenStep ==
  \A d \in own :
    (Len(regs') # Len(regs) /\ Listen(d, "pending")) =>
      LET mine == {i \in NewEntries : log'[i].cb = Len(regs) + 1}
      IN IF notified[d].fired
         THEN /\ Cardinality(mine) = 1
              /\ \A i \in mine :
                   /\ log'[i].context = notified[d].context
                   /\ log'[i].args = notified[d].args
         ELSE log' = log

C18_ProgressReplaysLastNotify == [][C18_ListenStep]_vars

\* The first listener is a progress listener registered after the Deferred
\* was notified with a context of the caller and then settled, and it was
\* invoked with that notify.
C18_Witness ==
  /\ Len(regs) = 1
  /\ regs[1].op = "progress"
  /\ regs[1].pre # "pending"
  /\ notified[1].fired /\ notified[1].context = CtxObj
  /\ Len(log) = 1
  /\ log[1].cb = 1 /\ log[1].args = notified[1].args

---------------------------------------------------------------------------
(* C17: state(newState, context, ...args) of the FSM is gated on the       *)
(* current state: from a final state it returns false, changes nothing and *)
(* invokes no listener; from a state that is not final it sets the state   *)
(* to newState - the same state and a final state included -, fires the    *)
(* list of newState with (context, args) and returns newState.  state()    *)
(* returns the current state, changes nothing and invokes no listener.     *)

\* The listeners registered on d for state s, in the order of registration.
RegisteredFor(d, s) ==
  SelectSeq([k \in 1..Len(regs) |-> k],
            LAMBDA k : regs[k].d = d /\ regs[k].op = STATES[s].listen)

C17_StateStep ==
  \A d \in own :
    /\ \A s \in StateNames, context \in Contexts, args \in ArgLists :
         (nFires' # nFires /\ FsmState(d, s, context, args)) =>
           IF FSM_getStateOptions(heap[d].state).finalState
           THEN /\ returned' = Val("false", 0)
                /\ heap' = heap
                /\ log' = log
           ELSE /\ returned' = Val(s, 0)
                /\ heap'[d].state = s
                /\ Memory(d)'[s] =
                     [fired |-> TRUE, firedContext |-> context, firedArgs |-> args]
                /\ log' = log \o [i \in 1..Len(RegisteredFor(d, s)) |->
                                    [cb |-> RegisteredFor(d, s)[i], d |-> d, s |-> s,
                                     context |-> context, args |-> args, state |-> s]]
    /\ (returned' # returned /\ FsmGet(d)) =>
         /\ returned' = Val(heap[d].state, 0)
         /\ heap' = heap
         /\ log' = log

C17_GatedOnCurrentState == [][C17_StateStep]_vars

\* A call of state(newState, ...) on the FSM in a final state returned
\* false, after a listener of that state had run.
C17_Witness ==
  /\ returned = Val("false", 0)
  /\ Final(1)
  /\ nFires = 2
  /\ \E i \in 1..Len(log) : log[i].s = heap[1].state

---------------------------------------------------------------------------
(* C19: no operation of a Promise view returns the Deferred behind it:     *)
(* done, fail, progress and always return that promise, then / pipe the    *)
(* promise of a Deferred that did not exist before, state a state name,    *)
(* promise() the promise itself; and promise() on the Deferred returns the *)
(* one Promise view of that Deferred.                                      *)

C19_PromiseStep ==
  \A d \in Ids :
    /\ \A s \in StateNames :
         (Len(regs') # Len(regs) /\ PromiseListen(d, s)) => returned' = PromiseRef(d)
    /\ (Len(regs') # Len(regs) /\ PromiseAlways(d)) => returned' = PromiseRef(d)
    /\ \A filters \in FilterTriples :
         (nextId' # nextId /\ PromiseThen(d, filters)) =>
           /\ returned'.k = "promise"
           /\ returned'.n # d
           /\ ~heap[returned'.n].alloc /\ heap'[returned'.n].alloc
    /\ (returned' # returned /\ PromiseState(d)) => returned'.k \in StateNames
    /\ (returned' # returned /\ PromisePromise(d)) => returned' = PromiseRef(d)
    /\ (returned' # returned /\ d \in own /\ DeferredPromise(d)) =>
         returned' = PromiseRef(d)

---------------------------------------------------------------------------
(* C20: producer calls made by the listeners of a settlement cannot break  *)
(* it: every done (fail) listener runs while the state reads "resolved"    *)
(* ("rejected"); a done listener that calls reject or notify, or a fail    *)
(* listener that calls resolve or notify, changes neither the state nor    *)
(* what is remembered and causes no listener invocation; and every done    *)
(* (fail) listener of the firing is still invoked, once, with the          *)
(* arguments of the settling call.                                         *)

C20_ReentrantCallsBlocked ==
  \A d \in own :
    /\ heap[d].state = settled[d].s
    /\ \A s \in StateNames : Memory(d)[s].firedArgs # ReenterArgs
    /\ \A i \in 1..Len(log) :
         log[i].d = d =>
           /\ log[i].args # ReenterArgs
           /\ log[i].s # "pending" =>
                /\ log[i].state = log[i].s
                /\ log[i].s = settled[d].s
                /\ log[i].args = settled[d].args
    /\ Final(d) =>
         \A k \in ListenersOf(d, heap[d].state) :
           Cardinality(Invocations(k, heap[d].state)) = 1

\* A done listener that calls d.reject(5), then a plain done listener and a
\* fail listener were registered; d.resolve(2, 3) then invoked the two done
\* listeners.
C20_Witness ==
  /\ Len(regs) = 3
  /\ regs[1].op = "done" /\ regs[1].fires = "rejected" /\ regs[1].pre = "pending"
  /\ regs[2].op = "done" /\ regs[2].fires = "" /\ regs[2].pre = "pending"
  /\ regs[3].op = "fail" /\ regs[3].pre = "pending"
  /\ settled[1].s = "resolved"
  /\ Len(log) = 2
  /\ log[1].cb = 1 /\ log[2].cb = 2

---------------------------------------------------------------------------
(* C21: the promise c returned by d.then(fDone, fFail, fProgress) never    *)
(* settles before its source: c is "resolved" or "rejected" only if d is   *)
(* "resolved" or "rejected", for all filters, including filters that       *)
(* return already-settled promises.                                        *)
(*                                                                         *)
(* The listener `then` registers on the pending state of d runs fProgress  *)
(* on every notify of d (lines 268-269); when fProgress returns a Deferred *)
(* or Promise q, the listener wires q's resolved and rejected lists to     *)
(* retDeferred.resolve and retDeferred.reject (lines 270-274), so c        *)
(* settles with q while d is still pending.                                *)

\* C21 as stated: c is settled only if its source is.
C21_NeverSettlesBeforeSource ==
  \A c \in Chained : Final(c) => Final(chains[c].src)

\* c adopted the value of the progress filter: d was notified and
\* fProgress returns a Deferred or Promise.
ProgressAdopted(c) ==
  /\ notified[chains[c].src].fired
  /\ ThenFilter(c, "pending") \in {"promise", "deferred"}

\* C21 as amended: c is settled only if its source d is settled, or d was
\* notified, fProgress returned a Deferred or Promise q, and q is settled.
C21_SettlesWithSourceOrAdopted ==
  \A c \in Chained :
    Final(c) =>
      \/ Final(chains[c].src)
      \/ ProgressAdopted(c) /\ Final(FilterDeferred.n)

\* d was notified, its progress filter returned the pending q and c stayed
\* pending; then d was resolved and c settled with it.
C21_Witness ==
  \E c \in Chained :
    /\ ProgressAdopted(c)
    /\ ~Final(FilterDeferred.n)
    /\ Final(chains[c].src)
    /\ heap[c].state = heap[chains[c].src].state

====
